---- MODULE Spec2Model ----
(***************************************************************************)
(* A model of the TinyRA thread store (chat_history table), of the         *)
(* request handler and background generation task that drive it, of the    *)
(* send hook that records the exchange, of the consecutive-empty reply     *)
(* rule, and of the reflection termination manager.                        *)
(***************************************************************************)
EXTENDS Integers, Sequences, FiniteSets, TLC

VARIABLES
    db,        \* the chat_history table: its rows, grouped by root_id and,
               \* within a root, in insertion (rowid) order
    calls,     \* SpecStore: the append call each store client is inside
    log,       \* SpecStore: the append calls that have ended, in commit order
    ncalls,    \* SpecStore: number of append calls issued so far
    fetched,   \* SpecFetch: what the fetch_chat_history call just made returned
    hook,      \* SpecHook: the call of the send hook just made
    messages,  \* SpecEmpty: the chat messages handed to the reply rule
    reply,     \* SpecEmpty: what terminate_on_consecutive_empty returned
    engine,    \* SpecTerm: the ReflectionTerminationManager's fields
    verdict,   \* SpecTerm: the outcome of the engine's last operation
    h,         \* Spec: the handle_input worker of each request
    task       \* Spec: the generate_response thread worker of each request

vars == <<db, calls, log, ncalls, fetched, hook, messages, reply, engine, verdict,
          h, task>>
appVars == <<h, task>>
hookVars == <<hook>>
otherVars == <<calls, log, ncalls, fetched, hook, messages, reply, engine, verdict>>
storeVars == <<db, calls, log, ncalls, fetched>>
emptyVars == <<messages, reply>>
termVars == <<engine, verdict>>

(***************************************************************************)
(* Bounds of the model.                                                    *)
(***************************************************************************)
MaxClients == 2
MaxCalls == 3
MaxMessages == 3
MaxRequests == 2
MaxExchange == 2
MaxTurnsTaken == 4
MaxTurnsArg == 3
MaxHookCalls == 3

Clients == 1..MaxClients
Roots == {0, 1}
Turns == {0, 1}
Roles == {"user", "assistant"}
Contents == {"", "hi"}
\* the (role, content) pairs the store clients write
Payloads == {<<"user", "">>, <<"user", "hi">>, <<"assistant", "hi">>}
\* the (role, content) pairs written before a fetch
FetchPayloads == {<<"user", "">>, <<"assistant", "hi">>}
\* odd clients call insert_chat_message, even ones a_insert_chat_message
Api(c) == IF c % 2 = 1 THEN "sync" ELSE "async"

\* Optional[int] = None: the id argument when the caller omits it, and the
\* value of MAX(id) over no rows.
None == -1

(***************************************************************************)
(* The table and the SQL statements the store functions execute.           *)
(***************************************************************************)
Row(root_id, id, role, content) ==
    [root_id |-> root_id, id |-> id, role |-> role, content |-> content]

RowsOf(d, root_id) == {i \in 1..Len(d) : d[i].root_id = root_id}

RowsAt(d, root_id, id) == {i \in 1..Len(d) : d[i].root_id = root_id /\ d[i].id = id}

\* chat_history(root INTEGER, turn INTEGER, role TEXT, content TEXT),
\* primary key (root, turn): an INSERT of an existing key is refused.
PrimaryKeyFree(d, root_id, id) == RowsAt(d, root_id, id) = {}

SetMax(S) == CHOOSE m \in S : \A x \in S : x <= m

\* mutant: the id is allocated from COUNT(*) - 1 instead of MAX(id)
SelectCountId(d, root_id) ==
    IF RowsOf(d, root_id) = {} THEN None
    ELSE Cardinality(RowsOf(d, root_id)) - 1

\* MAX(id) over the rows of a root, NULL (None) over no rows
SelectMaxId(d, root_id) ==
    IF RowsOf(d, root_id) = {} THEN None
    ELSE SetMax({d[i].id : i \in RowsOf(d, root_id)})

\* SELECT MAX(id) FROM chat_history WHERE root_id = ? : an aggregate without
\* GROUP BY yields one row, whatever the table holds
SelectMax(d, root_id) == <<SelectMaxId(d, root_id)>>

\* SELECT * FROM chat_history WHERE root_id = ? AND id = ? ; fetchone() is None
SelectRowIsNone(d, root_id, id) == RowsAt(d, root_id, id) = {}

\* the table with one more row.  Every statement of the program reads the
\* rows of one root, so the order of rows of different roots is not kept.
AddRow(d, row) ==
    LET k == Cardinality({i \in 1..Len(d) : d[i].root_id <= row.root_id})
    IN  SubSeq(d, 1, k) \o <<row>> \o SubSeq(d, k + 1, Len(d))

\* mutant: INSERT OR IGNORE, a refused row is dropped without an error
InsertRowOrIgnore(d, root_id, id, role, content) ==
    IF PrimaryKeyFree(d, root_id, id)
    THEN [ok |-> TRUE, db |-> AddRow(d, Row(root_id, id, role, content))]
    ELSE [ok |-> TRUE, db |-> d]

\* INSERT INTO chat_history (root_id, id, role, content) VALUES (?, ?, ?, ?)
\* ok = FALSE is the sqlite error raised for a key that is already there.
InsertRow(d, root_id, id, role, content) ==
    IF PrimaryKeyFree(d, root_id, id)
    THEN [ok |-> TRUE, db |-> AddRow(d, Row(root_id, id, role, content))]
    ELSE [ok |-> FALSE, db |-> d]

\* mutant: the UPDATE without "root_id = ? AND"
UpdateRowAnyRoot(d, root_id, id, role, content) ==
    [i \in 1..Len(d) |->
        IF d[i].id = id
        THEN Row(d[i].root_id, id, role, content)
        ELSE d[i]]

\* mutant: the UPDATE without "AND id = ?"
UpdateRowAnyId(d, root_id, id, role, content) ==
    [i \in 1..Len(d) |->
        IF d[i].root_id = root_id
        THEN Row(root_id, d[i].id, role, content)
        ELSE d[i]]

\* UPDATE chat_history SET role = ?, content = ? WHERE root_id = ? AND id = ?
UpdateRow(d, root_id, id, role, content) ==
    [i \in 1..Len(d) |->
        IF d[i].root_id = root_id /\ d[i].id = id
        THEN Row(root_id, id, role, content)
        ELSE d[i]]

(***************************************************************************)
(* insert_chat_message / a_insert_chat_message.  Each runs two statements  *)
(* on its own connection: a SELECT in autocommit mode, then an INSERT or   *)
(* UPDATE followed by commit.  Other connections may run between the two.  *)
(***************************************************************************)
\* first statement: MAX(id) when id is None, else whether the row is absent
\* max_id = c.fetchone()[0]
insert_select(d, root_id, id) ==
    IF id = None
    THEN [max_id |-> Head(SelectMax(d, root_id)), absent |-> FALSE]
    ELSE [max_id |-> None, absent |-> SelectRowIsNone(d, root_id, id)]

\* mutant: the first id of a root is 1
NextIdFromOne(max_id) == IF max_id # None THEN max_id + 1 ELSE 1

\* id = max_id + 1 if max_id is not None else 0
NextId(max_id) == IF max_id # None THEN max_id + 1 ELSE 0

\* mutant: the id is None branch writes with INSERT OR REPLACE
insert_auto_replace(d, role, content, root_id, sel) ==
    LET id == NextId(sel.max_id)
    IN  IF PrimaryKeyFree(d, root_id, id)
        THEN [ok |-> TRUE, db |-> AddRow(d, Row(root_id, id, role, content)), id |-> id]
        ELSE [ok |-> TRUE, db |-> UpdateRow(d, root_id, id, role, content), id |-> id]

\* the id is None branch: INSERT at the allocated id, commit, return id
insert_auto(d, role, content, root_id, sel) ==
    LET id == NextId(sel.max_id)
        r == InsertRow(d, root_id, id, role, content)
    IN  [ok |-> r.ok, db |-> r.db, id |-> id]

\* the explicit id branch: INSERT when the SELECT found no row, else UPDATE
insert_explicit(d, role, content, root_id, id, sel) ==
    IF sel.absent
    THEN LET r == InsertRow(d, root_id, id, role, content)
         IN  [ok |-> r.ok, db |-> r.db, id |-> id]
    ELSE [ok |-> TRUE, db |-> UpdateRow(d, root_id, id, role, content), id |-> id]

\* second statement and commit; ok = FALSE is ChatMessageError
insert_write(d, role, content, root_id, id, sel) ==
    IF id = None
    THEN insert_auto(d, role, content, root_id, sel)
    ELSE insert_explicit(d, role, content, root_id, id, sel)

\* mutant: the async variant takes the fetched item for None
a_insert_select_no_item(d, root_id, id) ==
    IF id = None
    THEN [max_id |-> None, absent |-> FALSE]
    ELSE [max_id |-> None, absent |-> SelectRowIsNone(d, root_id, id)]

\* the async variant: item = await c.fetchone(); max_id = None;
\* if item is not None: max_id = item[0]
a_insert_select(d, root_id, id) ==
    IF id = None
    THEN LET rows == SelectMax(d, root_id)
         IN  [max_id |-> IF rows = <<>> THEN None ELSE Head(rows),
              absent |-> FALSE]
    ELSE [max_id |-> None, absent |-> SelectRowIsNone(d, root_id, id)]

a_insert_write(d, role, content, root_id, id, sel) ==
    IF id = None
    THEN insert_auto(d, role, content, root_id, sel)
    ELSE insert_explicit(d, role, content, root_id, id, sel)

(***************************************************************************)
(* SpecStore: clients appending to the store concurrently.                 *)
(***************************************************************************)
Idle == [pc |-> "idle"]

\* no fetch_chat_history result at hand
NoFetch == [done |-> FALSE, kind |-> "none", root_id |-> None, id |-> None,
            rows |-> <<>>]

StoreIdle ==
    /\ db = <<>>
    /\ calls = [c \in Clients |-> Idle]
    /\ log = <<>>
    /\ ncalls = 0
    /\ fetched = NoFetch

Unset == [checked |-> FALSE, final |-> FALSE, reply |-> "None"]

EmptyIdle == messages = <<>> /\ reply = Unset

NoEngine == [built |-> FALSE, goal |-> "none", turns |-> 0, min_turns |-> 0,
             max_turns |-> None]

\* history_len and response record the arguments of a check_termination call,
\* args those of __init__, turns_before the value of _turns when the
\* operation was called
Outcome(op, kind, reason, explanation, model_calls) ==
    [op |-> op, kind |-> kind, reason |-> reason, explanation |-> explanation,
     model_calls |-> model_calls, history_len |-> 0, response |-> "none",
     args |-> <<>>, turns_before |-> 0]

NoVerdict == Outcome("none", "none", "none", "none", 0)

TermIdle == engine = NoEngine /\ verdict = NoVerdict

Requests == 1..MaxRequests

NoSel == [max_id |-> None, absent |-> FALSE]

\* a message handed to send(): a str, a dict with content and tool_calls, or
\* a value that is neither (None)
NoValue == "<None>"
Str(content) == [shape |-> "str", content |-> content, tool_calls |-> NoValue]
Neither == [shape |-> "other", content |-> NoValue, tool_calls |-> NoValue]
\* what a call that raised returns
NoReturn == [shape |-> "raised", content |-> NoValue, tool_calls |-> NoValue]
Dict(content, tool_calls) ==
    [shape |-> "dict", content |-> content, tool_calls |-> tool_calls]

NoInput == [pc |-> "new", user_input |-> "", id |-> None, sel |-> NoSel]

NoTask == [pc |-> "idle", msg_idx |-> None, task |-> NoValue, view |-> <<>>,
           who |-> "assistant", message |-> Str(""), sel |-> NoSel,
           sent |-> 0, response |-> NoValue, error |-> "none"]

AppIdle == h = [i \in Requests |-> NoInput] /\ task = [i \in Requests |-> NoTask]

NoHook == [n |-> 0, sender |-> "none", message |-> Str(""), msg_idx |-> None,
           silent |-> FALSE, raised |-> "none", returns |-> Str("")]

HookIdle == hook = NoHook

InitStore == StoreIdle /\ EmptyIdle /\ TermIdle /\ AppIdle /\ HookIdle

(***************************************************************************)
(* fetch_chat_history / fetch_row and their async variants.                *)
(***************************************************************************)
\* The SELECT of fetch_chat_history has no ORDER BY, so the order of its rows
\* is the one of the plan sqlite runs it with: a scan of the table gives the
\* rows as they were inserted, a search of the primary key index gives them
\* by ascending id.
QueryPlans == {"scan", "index"}

RECURSIVE Scan(_, _)
Scan(d, root_id) ==
    IF d = <<>> THEN <<>>
    ELSE IF Head(d).root_id = root_id
         THEN <<Head(d)>> \o Scan(Tail(d), root_id)
         ELSE Scan(Tail(d), root_id)

RECURSIVE IndexOrder(_)
IndexOrder(rows) ==
    IF rows = <<>> THEN <<>>
    ELSE LET k == CHOOSE x \in 1..Len(rows) :
                      \A y \in 1..Len(rows) :
                          rows[x].id < rows[y].id \/ (rows[x].id = rows[y].id /\ x <= y)
         IN  <<rows[k]>> \o IndexOrder(SubSeq(rows, 1, k - 1) \o
                                       SubSeq(rows, k + 1, Len(rows)))

\* SELECT root_id, id, role, content FROM chat_history WHERE root_id = ?
SelectWhereRoot(d, root_id, plan) ==
    IF plan = "scan" THEN Scan(d, root_id) ELSE IndexOrder(Scan(d, root_id))

fetch_chat_history(d, root_id, plan) == SelectWhereRoot(d, root_id, plan)

a_fetch_chat_history(d, root_id, plan) == SelectWhereRoot(d, root_id, plan)

\* mutant: the two query parameters are bound in the wrong order
fetch_row_swapped(d, id, root_id) ==
    LET rows == Scan(d, id)
        hit == {k \in 1..Len(rows) : rows[k].id = root_id}
    IN  IF hit = {}
        THEN [present |-> FALSE, root_id |-> root_id, id |-> id,
              role |-> NoValue, content |-> NoValue]
        ELSE LET k == CHOOSE x \in hit : \A y \in hit : x <= y
             IN  [present |-> TRUE, root_id |-> root_id, id |-> id,
                  role |-> rows[k].role, content |-> rows[k].content]

\* SELECT role, content FROM chat_history WHERE id = ? AND root_id = ? ;
\* the rows become dicts with the id and root_id of the call;
\* row[0] if row else None: present = FALSE is None
fetch_row(d, id, root_id) ==
    LET rows == Scan(d, root_id)
        hit == {k \in 1..Len(rows) : rows[k].id = id}
    IN  IF hit = {}
        THEN [present |-> FALSE, root_id |-> root_id, id |-> id,
              role |-> NoValue, content |-> NoValue]
        ELSE LET k == CHOOSE x \in hit : \A y \in hit : x <= y
             IN  [present |-> TRUE, root_id |-> root_id, id |-> id,
                  role |-> rows[k].role, content |-> rows[k].content]

a_fetch_row(d, id, root_id) ==
    LET rows == Scan(d, root_id)
        hit == {k \in 1..Len(rows) : rows[k].id = id}
    IN  IF hit = {}
        THEN [present |-> FALSE, root_id |-> root_id, id |-> id,
              role |-> NoValue, content |-> NoValue]
        ELSE LET k == CHOOSE x \in hit : \A y \in hit : x <= y
             IN  [present |-> TRUE, root_id |-> root_id, id |-> id,
                  role |-> rows[k].role, content |-> rows[k].content]

\* a client enters an append call and its connection runs the SELECT
AppendSelect(c) ==
    /\ calls[c].pc = "idle"
    /\ ncalls < MaxCalls
    /\ \E root_id \in Roots, id \in Turns \cup {None}, p \in Payloads :
        calls' = [calls EXCEPT ![c] =
            [pc |-> "write", root_id |-> root_id, id |-> id,
             role |-> p[1], content |-> p[2],
             sel |-> IF Api(c) = "sync" THEN insert_select(db, root_id, id)
                     ELSE a_insert_select(db, root_id, id)]]
    /\ ncalls' = ncalls + 1
    /\ UNCHANGED <<db, log, fetched, emptyVars, termVars, appVars, hookVars>>

\* the client's connection runs the INSERT or UPDATE and commits; the call
\* returns the id or raises ChatMessageError
AppendWrite(c) ==
    /\ calls[c].pc = "write"
    /\ LET k == calls[c]
           r == IF Api(c) = "sync"
                THEN insert_write(db, k.role, k.content, k.root_id, k.id, k.sel)
                ELSE a_insert_write(db, k.role, k.content, k.root_id, k.id, k.sel)
       IN  /\ db' = r.db
           /\ log' = Append(log,
                  [root_id |-> k.root_id, auto |-> (k.id = None),
                   ok |-> r.ok, id |-> r.id, role |-> k.role,
                   content |-> k.content])
    /\ calls' = [calls EXCEPT ![c] = Idle]
    /\ UNCHANGED <<ncalls, fetched, emptyVars, termVars, appVars, hookVars>>

NextStore == \E c \in Clients : AppendSelect(c) \/ AppendWrite(c)

SpecStore == InitStore /\ [][NextStore]_vars

(***************************************************************************)
(* SpecFetch: one caller that appends to the store and reads threads back, *)
(* one call after the other.                                               *)
(***************************************************************************)
InitFetch == StoreIdle /\ EmptyIdle /\ TermIdle /\ AppIdle /\ HookIdle

\* insert_chat_message or a_insert_chat_message, from its SELECT to its commit
AppendRow ==
    /\ ncalls < MaxCalls
    /\ \E api \in {"sync", "async"}, root_id \in Roots, id \in Turns \cup {None},
          p \in FetchPayloads :
        LET r == IF api = "sync"
                 THEN insert_write(db, p[1], p[2], root_id, id,
                                   insert_select(db, root_id, id))
                 ELSE a_insert_write(db, p[1], p[2], root_id, id,
                                     a_insert_select(db, root_id, id))
        IN  /\ db' = r.db
            /\ log' = Append(log,
                   [root_id |-> root_id, auto |-> (id = None), ok |-> r.ok,
                    id |-> r.id, role |-> p[1], content |-> p[2]])
    /\ ncalls' = ncalls + 1
    /\ fetched' = NoFetch
    /\ UNCHANGED <<calls, emptyVars, termVars, appVars, hookVars>>

\* fetch_chat_history or a_fetch_chat_history: one SELECT, run with one of
\* the plans
FetchThread ==
    /\ \E api \in {"sync", "async"}, root_id \in Roots, plan \in QueryPlans :
          fetched' = [done |-> TRUE, kind |-> "thread", root_id |-> root_id,
                      id |-> None,
                      rows |-> IF api = "sync"
                               THEN fetch_chat_history(db, root_id, plan)
                               ELSE a_fetch_chat_history(db, root_id, plan)]
    /\ UNCHANGED <<db, calls, log, ncalls, emptyVars, termVars, appVars, hookVars>>

\* fetch_row or a_fetch_row: rows is the dict returned, or empty for None
FetchRow ==
    /\ \E api \in {"sync", "async"}, root_id \in Roots, id \in 0..(MaxCalls - 1) :
        LET r == IF api = "sync" THEN fetch_row(db, id, root_id)
                 ELSE a_fetch_row(db, id, root_id)
        IN  fetched' = [done |-> TRUE, kind |-> "row", root_id |-> root_id,
                        id |-> id,
                        rows |-> IF r.present
                                 THEN <<Row(r.root_id, r.id, r.role, r.content)>>
                                 ELSE <<>>]
    /\ UNCHANGED <<db, calls, log, ncalls, emptyVars, termVars, appVars, hookVars>>

NextFetch == AppendRow \/ FetchThread \/ FetchRow

SpecFetch == InitFetch /\ [][NextFetch]_vars

(***************************************************************************)
(* terminate_on_consecutive_empty, the reply rule registered on the        *)
(* assistant.  messages is the assistant's view of the conversation.       *)
(***************************************************************************)
last_n == 2

Message(role, content) == [role |-> role, content |-> content]

\* the loop over reversed(messages): i is the position being visited, n the
\* remaining last_n, e the value of consecutive_are_empty ("None", TRUE, FALSE
\* as strings so that the three values compare)
RECURSIVE ScanReversed(_, _, _, _)
ScanReversed(msgs, i, n, e) ==
    IF i = 0 THEN e
    ELSE IF n = 0 THEN e
    ELSE IF msgs[i].role = "user"
         THEN IF msgs[i].content = ""
              THEN ScanReversed(msgs, i - 1, n - 1, "True")
              ELSE "False"
         ELSE ScanReversed(msgs, i - 1, n, e)

\* returns (True, "TERMINATE") or (False, None)
terminate_on_consecutive_empty(msgs) ==
    IF ScanReversed(msgs, Len(msgs), last_n, "None") = "True"
    THEN [checked |-> TRUE, final |-> TRUE, reply |-> "TERMINATE"]
    ELSE [checked |-> TRUE, final |-> FALSE, reply |-> "None"]

(***************************************************************************)
(* SpecEmpty: the rule applied to every history up to MaxMessages long.    *)
(***************************************************************************)
InitEmpty == StoreIdle /\ EmptyIdle /\ TermIdle /\ AppIdle /\ HookIdle

\* a message is delivered to the assistant
Receive ==
    /\ Len(messages) < MaxMessages
    /\ \E role \in Roles, content \in Contents :
          messages' = Append(messages, Message(role, content))
    /\ reply' = Unset
    /\ UNCHANGED <<storeVars, termVars, appVars, hookVars>>

\* the assistant is about to reply and runs the rule on its view
CheckEmpty ==
    /\ ~reply.checked
    /\ reply' = terminate_on_consecutive_empty(messages)
    /\ UNCHANGED <<messages, storeVars, termVars, appVars, hookVars>>

NextEmpty == Receive \/ CheckEmpty

SpecEmpty == InitEmpty /\ [][NextEmpty]_vars

(***************************************************************************)
(* ReflectionTerminationManager.                                           *)
(***************************************************************************)
\* What the model client answers.  ToolCall is a response whose content is
\* not a str, TransportFailure a create() that raises; every other value
\* names the text of a response.
ToolCall == "<tool call>"
TransportFailure == "<create raises>"
Texts == {
    "not json", "[]", "42", "null",
    "{}",
    "{is_done: true, reason: done}",
    "{is_done: false, reason: more}",
    "{is_done: true}",
    "{reason: done}",
    "{is_done: yes, reason: done}",
    "{is_done: 1, reason: done}",
    "{is_done: true, reason: 7}",
    "{is_done: null, reason: null}" }
Responses == Texts \cup {ToolCall, TransportFailure}

\* a JSON value: its Python type after json.loads and its printed form
Json(type, v) == [type |-> type, v |-> v]
Missing == Json("missing", "None")
Object(is_done, reason) ==
    [valid |-> TRUE, type |-> "dict", is_done |-> is_done, reason |-> reason]
NonObject(type) ==
    [valid |-> TRUE, type |-> type, is_done |-> Missing, reason |-> Missing]

\* json.loads(response.content): valid = FALSE is json.JSONDecodeError
JsonLoads(text) ==
    CASE text = "not json" -> [valid |-> FALSE, type |-> "none",
                               is_done |-> Missing, reason |-> Missing]
      [] text = "[]" -> NonObject("list")
      [] text = "42" -> NonObject("int")
      [] text = "null" -> NonObject("NoneType")
      [] text = "{}" -> Object(Missing, Missing)
      [] text = "{is_done: true, reason: done}" ->
            Object(Json("bool", "True"), Json("str", "done"))
      [] text = "{is_done: false, reason: more}" ->
            Object(Json("bool", "False"), Json("str", "more"))
      [] text = "{is_done: true}" -> Object(Json("bool", "True"), Missing)
      [] text = "{reason: done}" -> Object(Missing, Json("str", "done"))
      [] text = "{is_done: yes, reason: done}" ->
            Object(Json("str", "yes"), Json("str", "done"))
      [] text = "{is_done: 1, reason: done}" ->
            Object(Json("int", "1"), Json("str", "done"))
      [] text = "{is_done: true, reason: 7}" ->
            Object(Json("bool", "True"), Json("int", "7"))
      [] text = "{is_done: null, reason: null}" ->
            Object(Json("NoneType", "None"), Json("NoneType", "None"))

\* response_json.get(key, None) on a dict: a missing key and a null both
\* give None
Get(field) == IF field.type = "missing" THEN Json("NoneType", "None") ELSE field

\* mutant: max_turns equal to min_turns is refused
ConstructStrictMax(goal, max_turns, min_turns) ==
    IF min_turns < 1 THEN NoEngine
    ELSE IF max_turns # None /\ max_turns <= min_turns THEN NoEngine
    ELSE [built |-> TRUE, goal |-> goal, turns |-> 0, min_turns |-> min_turns,
          max_turns |-> max_turns]

\* __init__: the raised ValueError leaves no engine
Construct(goal, max_turns, min_turns) ==
    IF min_turns < 1 THEN NoEngine
    ELSE IF max_turns # None /\ max_turns < min_turns THEN NoEngine
    ELSE [built |-> TRUE, goal |-> goal, turns |-> 0, min_turns |-> min_turns,
          max_turns |-> max_turns]

\* mutant: the counter is kept in a field that wraps around
record_turn_taken_wraps(e) == [e EXCEPT !.turns = (e.turns + 1) % (MaxTurnsArg + 1)]

\* mutant: a turn is counted twice
record_turn_taken_twice(e) == [e EXCEPT !.turns = e.turns + 2]

record_turn_taken(e) == [e EXCEPT !.turns = e.turns + 1]

\* mutant: reset forgets the turn limit as well
reset_all(e) == [e EXCEPT !.turns = 0, !.max_turns = None]

reset(e) == [e EXCEPT !.turns = 0]

\* mutant: the limit is reached one turn late
MaxTurnsReachedLate(e) == e.max_turns # None /\ e.turns > e.max_turns

\* if self._max_turns is not None and self._turns >= self._max_turns
MaxTurnsReached(e) == e.max_turns # None /\ e.turns >= e.max_turns

\* mutant: the gate stays closed one turn longer
MinTurnsGateClosedLate(e) == e.turns <= e.min_turns + 1

\* mutant: the gate opens one turn earlier
MinTurnsGateClosedStrict(e) == e.turns < e.min_turns

\* if self._turns <= self._min_turns
MinTurnsGateClosed(e) == e.turns <= e.min_turns

\* mutant: a judge that says the goal is not reached loses its reason
ParseVerdictDropsReason(response) ==
    IF response = ToolCall
    THEN Outcome("check", "raised", "none", "AssertionError", 1)
    ELSE LET response_json == JsonLoads(response) IN
         IF ~response_json.valid
         THEN Outcome("check", "NotTerminated", "none", "Failed to parse response", 1)
         ELSE IF response_json.type # "dict"
         THEN Outcome("check", "raised", "none", "AttributeError", 1)
         ELSE LET is_done == Get(response_json.is_done)
                  reason == Get(response_json.reason)
              IN  IF is_done.type = "bool" /\ reason.type = "str"
                  THEN IF is_done.v = "True"
                       THEN Outcome("check", "Terminated", "GOAL_REACHED", reason.v, 1)
                       ELSE Outcome("check", "NotTerminated", "none", "None", 1)
                  ELSE Outcome("check", "NotTerminated", "none", reason.v, 1)

\* mutant: the try block catches every exception
ParseVerdictCatchesAll(response) ==
    IF response = ToolCall
    THEN Outcome("check", "NotTerminated", "none", "Failed to parse response", 1)
    ELSE LET response_json == JsonLoads(response) IN
         IF ~response_json.valid
         THEN Outcome("check", "NotTerminated", "none", "Failed to parse response", 1)
         ELSE IF response_json.type # "dict"
         THEN Outcome("check", "NotTerminated", "none", "Failed to parse response", 1)
         ELSE LET is_done == Get(response_json.is_done)
                  reason == Get(response_json.reason)
              IN  IF is_done.type = "bool" /\ reason.type = "str"
                  THEN IF is_done.v = "True"
                       THEN Outcome("check", "Terminated", "GOAL_REACHED", reason.v, 1)
                       ELSE Outcome("check", "NotTerminated", "none", reason.v, 1)
                  ELSE Outcome("check", "NotTerminated", "none", reason.v, 1)

\* the try block around the parse of the model's response
ParseVerdict(response) ==
    IF response = ToolCall
    THEN Outcome("check", "raised", "none", "AssertionError", 1)
    ELSE LET response_json == JsonLoads(response) IN
         IF ~response_json.valid
         THEN Outcome("check", "NotTerminated", "none", "Failed to parse response", 1)
         ELSE IF response_json.type # "dict"
         THEN Outcome("check", "raised", "none", "AttributeError", 1)
         ELSE LET is_done == Get(response_json.is_done)
                  reason == Get(response_json.reason)
              IN  IF is_done.type = "bool" /\ reason.type = "str"
                  THEN IF is_done.v = "True"
                       THEN Outcome("check", "Terminated", "GOAL_REACHED", reason.v, 1)
                       ELSE Outcome("check", "NotTerminated", "none", reason.v, 1)
                  ELSE Outcome("check", "NotTerminated", "none", reason.v, 1)

\* mutant: the model is asked before the rules are looked at
check_termination_judge_first(e, chat_history, response) ==
    LET judged == IF response = TransportFailure
                  THEN Outcome("check", "raised", "none", "ModelClientError", 1)
                  ELSE ParseVerdict(response)
    IN  IF judged.kind = "raised" THEN judged
        ELSE IF MaxTurnsReached(e)
        THEN Outcome("check", "Terminated", "MAX_TURNS_REACHED", "Max turns reached.", 1)
        ELSE IF MinTurnsGateClosed(e)
        THEN Outcome("check", "NotTerminated", "none", "None", 1)
        ELSE IF Len(chat_history) = 0
        THEN Outcome("check", "NotTerminated", "none", "None", 1)
        ELSE judged

\* mutant: create() runs inside the try block, which catches its exception
check_termination_recovers(e, chat_history, response) ==
    IF MaxTurnsReached(e)
    THEN Outcome("check", "Terminated", "MAX_TURNS_REACHED", "Max turns reached.", 0)
    ELSE IF MinTurnsGateClosed(e)
    THEN Outcome("check", "NotTerminated", "none", "None", 0)
    ELSE IF Len(chat_history) = 0
    THEN Outcome("check", "NotTerminated", "none", "None", 0)
    ELSE IF response = TransportFailure
    THEN Outcome("check", "NotTerminated", "none", "Failed to parse response", 1)
    ELSE ParseVerdict(response)

\* create() is awaited before the try block: what it raises leaves
\* check_termination
check_termination(e, chat_history, response) ==
    IF MaxTurnsReached(e)
    THEN Outcome("check", "Terminated", "MAX_TURNS_REACHED", "Max turns reached.", 0)
    ELSE IF MinTurnsGateClosed(e)
    THEN Outcome("check", "NotTerminated", "none", "None", 0)
    ELSE IF Len(chat_history) = 0
    THEN Outcome("check", "NotTerminated", "none", "None", 0)
    ELSE IF response = TransportFailure
    THEN Outcome("check", "raised", "none", "ModelClientError", 1)
    ELSE ParseVerdict(response)

(***************************************************************************)
(* SpecTerm: one engine, constructed and then driven by its caller.        *)
(***************************************************************************)
Histories == {<<>>, <<Message("user", "hi")>>}
Goals == {"sort the list", "plot the data"}

InitTerm == StoreIdle /\ EmptyIdle /\ TermIdle /\ AppIdle /\ HookIdle

New ==
    /\ ~engine.built
    /\ \E goal \in Goals, max_turns \in {None} \cup 0..MaxTurnsArg,
          min_turns \in 0..MaxTurnsArg :
        LET e == Construct(goal, max_turns, min_turns) IN
        /\ engine' = e
        /\ verdict' = [Outcome("init", IF e.built THEN "none" ELSE "raised", "none",
                                IF e.built THEN "none" ELSE "ValueError", 0)
                          EXCEPT !.args = <<goal, max_turns, min_turns>>]
    /\ UNCHANGED <<storeVars, emptyVars, appVars, hookVars>>

RecordTurnTaken ==
    /\ engine.built
    /\ engine.turns < MaxTurnsTaken
    /\ engine' = record_turn_taken(engine)
    /\ verdict' = [Outcome("record", "none", "none", "none", 0)
                      EXCEPT !.turns_before = engine.turns]
    /\ UNCHANGED <<storeVars, emptyVars, appVars, hookVars>>

\* response is what the model client would answer if it is asked
CheckTermination ==
    /\ engine.built
    /\ \E chat_history \in Histories, response \in Responses :
          verdict' = [check_termination(engine, chat_history, response)
                        EXCEPT !.history_len = Len(chat_history),
                               !.response = response,
                               !.turns_before = engine.turns]
    /\ UNCHANGED <<engine, storeVars, emptyVars, appVars, hookVars>>

Reset ==
    /\ engine.built
    /\ engine' = reset(engine)
    /\ verdict' = [Outcome("reset", "none", "none", "none", 0)
                      EXCEPT !.turns_before = engine.turns]
    /\ UNCHANGED <<storeVars, emptyVars, appVars, hookVars>>

NextTerm == New \/ RecordTurnTaken \/ CheckTermination \/ Reset

SpecTerm == InitTerm /\ [][NextTerm]_vars

(***************************************************************************)
(* TinyRA.handle_input: an async worker per submitted input.  It suspends  *)
(* at every await, where other workers and the generation threads run.     *)
(***************************************************************************)
Placeholder == "Computing response..."

\* on_input_submitted starts the worker, which runs up to the SELECT of
\* a_insert_chat_message("user", user_input, root_id=0).  Requests are
\* numbered in the order they are submitted.
Submit(i) ==
    /\ h[i].pc = "new"
    /\ \A j \in Requests : j < i => h[j].pc # "new"
    /\ \E user_input \in Contents :
          h' = [h EXCEPT ![i] = [pc |-> "user_write", user_input |-> user_input,
                                 id |-> None,
                                 sel |-> a_insert_select(db, 0, None)]]
    /\ UNCHANGED <<db, task, otherVars>>

\* the INSERT of the user row; ChatMessageError ends the worker
UserWrite(i) ==
    /\ h[i].pc = "user_write"
    /\ LET r == a_insert_write(db, "user", h[i].user_input, 0, None, h[i].sel) IN
        /\ db' = r.db
        /\ h' = [h EXCEPT ![i].pc = IF r.ok THEN "fetch" ELSE "raised",
                          ![i].id = IF r.ok THEN r.id ELSE None]
    /\ UNCHANGED <<task, otherVars>>

\* user_message = await a_fetch_row(id); return if it is None
FetchUserRow(i) ==
    /\ h[i].pc = "fetch"
    /\ h' = [h EXCEPT ![i].pc = IF a_fetch_row(db, h[i].id, 0).present
                                THEN "placeholder_select" ELSE "returned"]
    /\ UNCHANGED <<db, task, otherVars>>

\* a_insert_chat_message("info", "Computing response...", root_id=0, id=id + 1)
PlaceholderSelect(i) ==
    /\ h[i].pc = "placeholder_select"
    /\ h' = [h EXCEPT ![i].pc = "placeholder_write",
                      ![i].sel = a_insert_select(db, 0, h[i].id + 1)]
    /\ UNCHANGED <<db, task, otherVars>>

PlaceholderWrite(i) ==
    /\ h[i].pc = "placeholder_write"
    /\ LET r == a_insert_write(db, "info", Placeholder, 0, h[i].id + 1, h[i].sel) IN
        /\ db' = r.db
        /\ h' = [h EXCEPT ![i].pc = IF r.ok THEN "start" ELSE "raised"]
    /\ UNCHANGED <<task, otherVars>>

\* mutant: handle_input awaits the end of the worker it started
StartGenerationAndWait(i) ==
    /\ h[i].pc = "start"
    /\ h' = [h EXCEPT ![i].pc = "wait"]
    /\ task' = [task EXCEPT ![i].pc = "fetch", ![i].msg_idx = h[i].id]
    /\ UNCHANGED <<db, otherVars>>

\* self.generate_response(id): the decorated method starts a thread worker and
\* returns at once, so nothing the thread raises reaches the except clause
\* of handle_input
StartGeneration(i) ==
    /\ h[i].pc = "start"
    /\ h' = [h EXCEPT ![i].pc = "returned"]
    /\ task' = [task EXCEPT ![i].pc = "fetch", ![i].msg_idx = h[i].id]
    /\ UNCHANGED <<db, otherVars>>

(***************************************************************************)
(* generate_response_process(msg_idx), run by the thread worker.           *)
(***************************************************************************)
AssistantReplies == {Str("hi"), Str("TERMINATE"), Dict(NoValue, "call_1"),
                     Dict(NoValue, NoValue)}
UserReplies == {Str(""), Str("hi")}
Summaries == {"answer"}
FinalPrompt == "Based on the results in above conversation, ..."

\* json.dumps(tool_calls)
JsonDumps(tool_calls) == IF tool_calls = "call_1" THEN "[{call_1}]" ELSE "null"

\* texts of 10, 100, 101 and 150 characters
Text10 == "0123456789"
Text100 == Text10 \o Text10 \o Text10 \o Text10 \o Text10 \o
           Text10 \o Text10 \o Text10 \o Text10 \o Text10
Text101 == Text100 \o "a"
Text150 == Text101 \o "bcdefghij" \o Text10 \o Text10 \o Text10 \o Text10

SnippetLen == 100

\* mutant: the slice keeps one character more
summarize_one_more(text) ==
    IF Len(text) <= SnippetLen + 1 THEN text ELSE SubSeq(text, 1, SnippetLen + 1)

\* text[:100]
summarize(text) ==
    IF Len(text) <= SnippetLen THEN text ELSE SubSeq(text, 1, SnippetLen)

\* message.get(key): None and "" are falsy
Truthy(v) == v # NoValue /\ v # ""

\* mutant: a tool call is stored as its summary
HookPlanStoresSummary(message) ==
    IF message.shape = "str"
    THEN [ok |-> TRUE, stored |-> message.content, summary |-> message.content,
          error |-> "none"]
    ELSE IF message.shape = "other"
    THEN [ok |-> FALSE, stored |-> NoValue, summary |-> NoValue,
          error |-> "UnboundLocalError"]
    ELSE IF Truthy(message.content)
    THEN [ok |-> TRUE, stored |-> message.content, summary |-> message.content,
          error |-> "none"]
    ELSE IF Truthy(message.tool_calls)
    THEN [ok |-> TRUE, stored |-> "Calling tools...",
          summary |-> "Calling tools...", error |-> "none"]
    ELSE [ok |-> FALSE, stored |-> NoValue, summary |-> NoValue,
          error |-> "ValueError"]

\* mutant: a dict without content and tool_calls is recorded as empty text
HookPlanAcceptsEmpty(message) ==
    IF message.shape = "str"
    THEN [ok |-> TRUE, stored |-> message.content, summary |-> message.content,
          error |-> "none"]
    ELSE IF message.shape = "other"
    THEN [ok |-> FALSE, stored |-> NoValue, summary |-> NoValue,
          error |-> "UnboundLocalError"]
    ELSE IF Truthy(message.content)
    THEN [ok |-> TRUE, stored |-> message.content, summary |-> message.content,
          error |-> "none"]
    ELSE IF Truthy(message.tool_calls)
    THEN [ok |-> TRUE, stored |-> JsonDumps(message.tool_calls),
          summary |-> "Calling tools...", error |-> "none"]
    ELSE [ok |-> TRUE, stored |-> "", summary |-> "", error |-> "none"]

\* post_snippet_and_record_history up to its first insert: what it stores in
\* the conversation thread and the summary it keeps.  ok = FALSE is the
\* exception raised before anything is stored: ValueError for a dict with
\* neither content nor tool_calls, UnboundLocalError (summary was never
\* assigned) for a message that is neither a str nor a dict and so reaches
\* summarize(summary) without an insert.
HookPlan(message) ==
    IF message.shape = "str"
    THEN [ok |-> TRUE, stored |-> message.content, summary |-> message.content,
          error |-> "none"]
    ELSE IF message.shape = "other"
    THEN [ok |-> FALSE, stored |-> NoValue, summary |-> NoValue,
          error |-> "UnboundLocalError"]
    ELSE IF Truthy(message.content)
    THEN [ok |-> TRUE, stored |-> message.content, summary |-> message.content,
          error |-> "none"]
    ELSE IF Truthy(message.tool_calls)
    THEN [ok |-> TRUE, stored |-> JsonDumps(message.tool_calls),
          summary |-> "Calling tools...", error |-> "none"]
    ELSE [ok |-> FALSE, stored |-> NoValue, summary |-> NoValue,
          error |-> "ValueError"]

\* mutant: the exchange is recorded in the top-level thread
ConversationRootTopLevel(msg_idx) == 0

\* the thread the exchange of the request at msg_idx is recorded in
ConversationRoot(msg_idx) == msg_idx + 1

\* mutant: the response is written over the request
ResponseTurnIsRequest(msg_idx) == msg_idx

\* the top-level turn that shows the response to the request at msg_idx
ResponseTurn(msg_idx) == msg_idx + 1

\* mutant: the silent flag is looked at after the message is recorded
post_snippet_ignores_silent(d, sender, message, msg_idx, silent) ==
    LET plan == HookPlan(message)
        root_id == ConversationRoot(msg_idx)
        first == insert_write(d, sender, plan.stored, root_id, None,
                              insert_select(d, root_id, None))
        second == insert_write(first.db, "info", summarize(plan.summary), 0,
                               ResponseTurn(msg_idx),
                               insert_select(first.db, 0, ResponseTurn(msg_idx)))
    IN  IF ~plan.ok
        THEN [raised |-> plan.error, db |-> d, returns |-> NoReturn]
        ELSE IF ~first.ok
        THEN [raised |-> "ChatMessageError", db |-> first.db, returns |-> NoReturn]
        ELSE IF ~second.ok
        THEN [raised |-> "ChatMessageError", db |-> second.db, returns |-> NoReturn]
        ELSE [raised |-> "none", db |-> second.db, returns |-> message]

\* post_snippet_and_record_history(sender, message, recipient, silent) of the
\* task bound to msg_idx, run from its first statement to its last on the
\* table d: the exception it raises if any, the table it leaves, and the
\* value it returns
post_snippet_and_record_history(d, sender, message, msg_idx, silent) ==
    IF silent
    THEN [raised |-> "none", db |-> d, returns |-> message]
    ELSE
    LET plan == HookPlan(message)
        root_id == ConversationRoot(msg_idx)
        first == insert_write(d, sender, plan.stored, root_id, None,
                              insert_select(d, root_id, None))
        second == insert_write(first.db, "info", summarize(plan.summary), 0,
                               ResponseTurn(msg_idx),
                               insert_select(first.db, 0, ResponseTurn(msg_idx)))
    IN  IF ~plan.ok
        THEN [raised |-> plan.error, db |-> d, returns |-> NoReturn]
        ELSE IF ~first.ok
        THEN [raised |-> "ChatMessageError", db |-> first.db, returns |-> NoReturn]
        ELSE IF ~second.ok
        THEN [raised |-> "ChatMessageError", db |-> second.db, returns |-> NoReturn]
        ELSE [raised |-> "none", db |-> second.db, returns |-> message]

(***************************************************************************)
(* SpecHook: the send hook called with every shape of message, silent or   *)
(* not, by one thread at a time.                                           *)
(***************************************************************************)
HookMessages == {Str(""), Str("hi"), Dict("hi", NoValue), Dict("hi", "call_1"),
                 Dict(NoValue, "call_1"), Dict("", "call_1"),
                 Dict(NoValue, NoValue), Dict("", NoValue), Neither,
                 Str(Text100), Str(Text101), Dict(Text150, NoValue)}

InitHook == StoreIdle /\ EmptyIdle /\ TermIdle /\ AppIdle /\ HookIdle

\* sender.send(message, recipient, silent=silent) reaches the hook
HookCall ==
    /\ hook.n < MaxHookCalls
    /\ \E sender \in Roles, message \in HookMessages, msg_idx \in Turns,
          silent \in BOOLEAN :
        LET r == post_snippet_and_record_history(db, sender, message, msg_idx, silent)
        IN  /\ db' = r.db
            /\ hook' = [n |-> hook.n + 1, sender |-> sender, message |-> message,
                        msg_idx |-> msg_idx, silent |-> silent,
                        raised |-> r.raised, returns |-> r.returns]
    /\ UNCHANGED <<calls, log, ncalls, fetched, emptyVars, termVars, appVars>>

NextHook == HookCall

SpecHook == InitHook /\ [][NextHook]_vars

\* the lambda given as is_termination_msg
is_termination_msg(message) ==
    Truthy(message.content) /\ message.content = "TERMINATE"

\* the worker ends: its locals are gone, what is kept is what it was bound
\* to and how it ended
WorkerEnded(t, pc, error) ==
    [NoTask EXCEPT !.pc = pc, !.msg_idx = t.msg_idx, !.response = t.response,
                   !.sent = t.sent, !.error = error]

\* mutant: a worker that fails starts its exchange over
FailAndRetry(i, error) == task' = [task EXCEPT ![i] = [NoTask EXCEPT
                              !.pc = "fetch", !.msg_idx = task[i].msg_idx]]

\* an exception leaves generate_response_process and ends the worker
Fail(i, error) == task' = [task EXCEPT ![i] = WorkerEnded(task[i], "failed", error)]

\* the view an agent keeps of the rows replayed to it: a row of role user is
\* sent by the user proxy, every other row by the assistant
Replayed(chat_history) ==
    [k \in 1..Len(chat_history) |->
        Message(IF chat_history[k].role = "user" THEN "user" ELSE "assistant",
                chat_history[k].content)]

RECURSIVE ThroughHook(_, _, _)
\* the table after every row of chat_history went through the hook, not silent
ThroughHook(d, chat_history, msg_idx) ==
    IF chat_history = <<>> THEN d
    ELSE ThroughHook(
            post_snippet_and_record_history(
                d, IF Head(chat_history).role = "user" THEN "user" ELSE "assistant",
                Str(Head(chat_history).content), msg_idx, FALSE).db,
            Tail(chat_history), msg_idx)

\* mutant: the hooks are registered before the history is replayed, and the
\* replay is not silent
seed_history_hooked(d, chat_history, msg_idx) ==
    [db |-> ThroughHook(d, chat_history, msg_idx), view |-> Replayed(chat_history)]

\* the loop that populates the history: every row is sent with silent=True
\* and request_reply=False, before any hook is registered, so that no
\* statement of the store runs
seed_history(d, chat_history, msg_idx) ==
    [db |-> d, view |-> Replayed(chat_history)]

\* chat_history = fetch_chat_history(); task = chat_history[msg_idx]["content"];
\* then every row is replayed silently into the agents' views
FetchAndSeed(i) ==
    /\ task[i].pc = "fetch"
    /\ \E plan \in QueryPlans :
        LET chat_history == fetch_chat_history(db, 0, plan) IN
        IF task[i].msg_idx >= Len(chat_history)
        THEN Fail(i, "IndexError") /\ db' = db
        ELSE LET seeded == seed_history(db, chat_history, task[i].msg_idx) IN
             /\ db' = seeded.db
             /\ task' = [task EXCEPT
                    ![i].pc = "send",
                    ![i].task = chat_history[task[i].msg_idx + 1].content,
                    ![i].who = "assistant",
                    ![i].view = seeded.view]
    /\ UNCHANGED <<h, otherVars>>

\* the replies the agent whose turn it is may produce: the assistant's reply
\* rule comes first and pre-empts the model
RepliesOf(t) ==
    IF t.who = "assistant"
    THEN IF terminate_on_consecutive_empty(t.view).final
         THEN {Str("TERMINATE")}
         ELSE AssistantReplies
    ELSE UserReplies

\* the agent produces its message and sends it; the hook validates it and
\* begins insert_chat_message(sender.name, ..., root_id=msg_idx + 1)
Send(i) ==
    /\ task[i].pc = "send"
    /\ \E message \in RepliesOf(task[i]) :
        IF HookPlan(message).ok
        THEN task' = [task EXCEPT
                ![i].pc = "conversation_write",
                ![i].message = message,
                ![i].sel = insert_select(db, ConversationRoot(task[i].msg_idx), None)]
        ELSE Fail(i, HookPlan(message).error)
    /\ UNCHANGED <<db, h, otherVars>>

\* the model client raises while the assistant generates its reply
ReplyRaises(i) ==
    /\ task[i].pc = "send"
    /\ task[i].who = "assistant"
    /\ ~terminate_on_consecutive_empty(task[i].view).final
    /\ Fail(i, "ModelClientError")
    /\ UNCHANGED <<db, h, otherVars>>

ConversationWrite(i) ==
    /\ task[i].pc = "conversation_write"
    /\ LET t == task[i]
           r == insert_write(db, t.who, HookPlan(t.message).stored,
                             ConversationRoot(t.msg_idx), None, t.sel)
       IN  /\ db' = r.db
           /\ IF r.ok THEN task' = [task EXCEPT ![i].pc = "snippet_select"]
              ELSE Fail(i, "ChatMessageError")
    /\ UNCHANGED <<h, otherVars>>

\* insert_chat_message("info", snippet, root_id=0, id=msg_idx + 1)
SnippetSelect(i) ==
    /\ task[i].pc = "snippet_select"
    /\ task' = [task EXCEPT
            ![i].pc = "snippet_write",
            ![i].sel = insert_select(db, 0, ResponseTurn(task[i].msg_idx))]
    /\ UNCHANGED <<db, h, otherVars>>

\* the snippet is written, the hook returns and the message is delivered:
\* the user proxy stops on a termination message, and the exchange runs
\* out of work after MaxExchange messages
SnippetWrite(i) ==
    /\ task[i].pc = "snippet_write"
    /\ LET t == task[i]
           r == insert_write(db, "info", summarize(HookPlan(t.message).summary),
                             0, ResponseTurn(t.msg_idx), t.sel)
           over == \/ t.sent + 1 >= MaxExchange
                   \/ t.who = "assistant" /\ is_termination_msg(t.message)
       IN  /\ db' = r.db
           /\ IF r.ok
              THEN task' = [task EXCEPT
                      ![i].pc = IF over THEN "final" ELSE "send",
                      ![i].sent = t.sent + 1,
                      ![i].who = IF t.who = "assistant" THEN "user" ELSE "assistant",
                      ![i].view = Append(t.view, Message(t.who, t.message.content))]
              ELSE Fail(i, "ChatMessageError")
    /\ UNCHANGED <<h, otherVars>>

\* the final prompt is sent silently, the assistant generates the response,
\* and insert_chat_message("assistant", response, root_id=0, id=msg_idx + 1)
\* begins
FinalResponse(i) ==
    /\ task[i].pc = "final"
    /\ LET view == Append(task[i].view, Message("user", FinalPrompt)) IN
       \E response \in IF terminate_on_consecutive_empty(view).final
                       THEN {"TERMINATE"} ELSE Summaries :
          task' = [task EXCEPT
              ![i].pc = "response_write",
              ![i].response = response,
              ![i].sel = insert_select(db, 0, ResponseTurn(task[i].msg_idx))]
    /\ UNCHANGED <<db, h, otherVars>>

\* the model client raises while the assistant generates the response
FinalRaises(i) ==
    /\ task[i].pc = "final"
    /\ Fail(i, "ModelClientError")
    /\ UNCHANGED <<db, h, otherVars>>

\* mutant: the response is written with the role of the snippets
ResponseWriteAsInfo(i) ==
    /\ task[i].pc = "response_write"
    /\ LET t == task[i]
           r == insert_write(db, "info", t.response, 0,
                             ResponseTurn(t.msg_idx), t.sel)
       IN  /\ db' = r.db
           /\ IF r.ok THEN task' = [task EXCEPT ![i] = WorkerEnded(t, "done", "none")]
              ELSE Fail(i, "ChatMessageError")
    /\ UNCHANGED <<h, otherVars>>

\* the INSERT or UPDATE of the response row; the worker ends
ResponseWrite(i) ==
    /\ task[i].pc = "response_write"
    /\ LET t == task[i]
           r == insert_write(db, "assistant", t.response, 0,
                             ResponseTurn(t.msg_idx), t.sel)
       IN  /\ db' = r.db
           /\ IF r.ok THEN task' = [task EXCEPT ![i] = WorkerEnded(t, "done", "none")]
              ELSE Fail(i, "ChatMessageError")
    /\ UNCHANGED <<h, otherVars>>

Init == StoreIdle /\ EmptyIdle /\ TermIdle /\ AppIdle /\ HookIdle

HandleInput(i) ==
    \/ Submit(i) \/ UserWrite(i) \/ FetchUserRow(i)
    \/ PlaceholderSelect(i) \/ PlaceholderWrite(i) \/ StartGeneration(i)

Generate(i) ==
    \/ FetchAndSeed(i) \/ Send(i) \/ ReplyRaises(i) \/ ConversationWrite(i)
    \/ SnippetSelect(i) \/ SnippetWrite(i)
    \/ FinalResponse(i) \/ FinalRaises(i) \/ ResponseWrite(i)

Next == \E i \in Requests : HandleInput(i) \/ Generate(i)

Spec == Init /\ [][Next]_vars

\* SpecLive: the thread of every generation worker keeps being scheduled, and
\* every call it makes returns or raises
SpecLive == Init /\ [][Next]_vars /\ \A i \in Requests : WF_vars(Generate(i))

(***************************************************************************)
(* SpecStart: the application, and a caller that starts generate_response  *)
(* for a request turn of its choice.                                       *)
(***************************************************************************)
InitStart == StoreIdle /\ EmptyIdle /\ TermIdle /\ AppIdle /\ HookIdle

\* self.generate_response(msg_idx): the decorator starts a thread worker for
\* every call, whatever workers are running
GenerateResponse(i) ==
    /\ h[i].pc = "new"
    /\ \A j \in Requests : j < i => h[j].pc # "new"
    /\ task[i].pc = "idle"
    /\ \E msg_idx \in Turns :
          task' = [task EXCEPT ![i].pc = "fetch", ![i].msg_idx = msg_idx]
    /\ h' = [h EXCEPT ![i].pc = "direct"]
    /\ UNCHANGED <<db, otherVars>>

NextStart == \E i \in Requests : HandleInput(i) \/ Generate(i) \/ GenerateResponse(i)

SpecStart == InitStart /\ [][NextStart]_vars

(***************************************************************************)
(* SpecSeq: the application with its requests handled one after another:   *)
(* an input is submitted when the handlers and the generation tasks of     *)
(* the inputs before it have ended.                                        *)
(***************************************************************************)
InitSeq == StoreIdle /\ EmptyIdle /\ TermIdle /\ AppIdle /\ HookIdle

\* the handler of request j has ended, and so has the task it started
Settled(j) ==
    \/ h[j].pc = "raised"
    \/ h[j].pc = "returned" /\ task[j].pc \in {"idle", "done", "failed"}

SubmitWhenSettled(i) ==
    /\ \A j \in Requests : j < i => Settled(j)
    /\ Submit(i)

NextSeq ==
    \E i \in Requests :
        \/ SubmitWhenSettled(i) \/ UserWrite(i) \/ FetchUserRow(i)
        \/ PlaceholderSelect(i) \/ PlaceholderWrite(i) \/ StartGeneration(i)
        \/ Generate(i)

SpecSeq == InitSeq /\ [][NextSeq]_vars

(***************************************************************************)
(* Claims about the store, checked under SpecStore and SpecFetch.          *)
(***************************************************************************)
Ended(r) == {i \in 1..Len(log) : log[i].root_id = r}
Returned(r) == {i \in Ended(r) : log[i].ok}
NoDuplicateKey == \A i, j \in 1..Len(db) :
    (db[i].root_id = db[j].root_id /\ db[i].id = db[j].id) => i = j

\* C1: appends without an explicit turn to the same root never race on the
\* turn they allocate: however their statements interleave, every one of
\* them returns a turn, the turns returned are pairwise distinct, and the
\* table never holds two rows with the same (root, turn).
C1_AppendsNeverRace ==
    /\ \A r \in Roots : \A i \in Ended(r) : log[i].auto => log[i].ok
    /\ \A r \in Roots : \A i, j \in Returned(r) :
          (log[i].auto /\ log[j].auto /\ i # j) => log[i].id # log[j].id
    /\ NoDuplicateKey

\* C2: on a root that only ever received appends without an explicit turn,
\* the n-th append that returns yields n-1: 0, 1, 2, ... with no gap.
C2_GaplessFromZero ==
    \A r \in Roots :
        (\A i \in Ended(r) : log[i].auto) =>
            \A i \in Returned(r) :
                log[i].id = Cardinality({j \in Returned(r) : j < i})

C2_Witness ==
    \E r \in Roots :
        /\ \A i \in Ended(r) : log[i].auto
        /\ \E i \in Returned(r) : log[i].id = 2

\* C3: an append with an explicit turn is an upsert: a key that was appended
\* to has exactly one row, holding the role and content of the most recent
\* append to it, and a key never appended to has none.
C3_Upsert ==
    /\ NoDuplicateKey
    /\ \A i \in 1..Len(db) :
          \E j \in Returned(db[i].root_id) : log[j].id = db[i].id
    /\ \A r \in Roots : \A j \in Returned(r) :
          LET W == {k \in Returned(r) : log[k].id = log[j].id}
              last == SetMax(W)
          IN  \E i \in RowsAt(db, r, log[j].id) :
                  /\ db[i].role = log[last].role
                  /\ db[i].content = log[last].content

\* an explicit-turn append has overwritten a row, next to another row of the
\* same root that it left alone
C3_Witness ==
    \E r \in Roots : \E i, j \in Returned(r) :
        /\ i < j /\ ~log[j].auto /\ log[i].id = log[j].id
        /\ log[i].role # log[j].role /\ log[i].content # log[j].content
        /\ \E k \in RowsOf(db, r) : db[k].id # log[j].id

\* C13: fetchThread(root) returns all and only the rows of the root, by
\* ascending turn, in whatever order the rows were appended, and the empty
\* sequence for a root without rows.
C13_FetchAscending ==
    fetched.kind = "thread" =>
        /\ Len(fetched.rows) = Cardinality(RowsOf(db, fetched.root_id))
        /\ {fetched.rows[k] : k \in 1..Len(fetched.rows)}
              = {db[i] : i \in RowsOf(db, fetched.root_id)}
        /\ \A k, l \in 1..Len(fetched.rows) :
              k < l => fetched.rows[k].id < fetched.rows[l].id

\* C28: an append call that ends has either returned a turn, and the row at
\* that turn then holds the role and content it was given, or raised
\* ChatMessageError, and the store is as it was before.
C28_NoSilentDrop ==
    [][\A c \in Clients :
          (calls[c].pc = "write" /\ calls'[c].pc = "idle") =>
              LET k == calls[c]
                  e == log'[Len(log')]
              IN  /\ e.ok =>
                        /\ k.id # None => e.id = k.id
                        /\ RowsAt(db', k.root_id, e.id) # {}
                        /\ \A i \in RowsAt(db', k.root_id, e.id) :
                              db'[i].role = k.role /\ db'[i].content = k.content
                  /\ ~e.ok => db' = db]_vars

\* an append has been refused while another one to the same root, racing
\* with it, has returned
C28_Witness ==
    \E i, j \in 1..Len(log) :
        /\ i < j /\ log[i].root_id = log[j].root_id
        /\ log[i].ok /\ ~log[j].ok
        /\ log[i].content # log[j].content
        /\ \E k \in RowsAt(db, log[i].root_id, log[i].id) :
              db[k].content = log[i].content

\* the appends to (root, turn) that returned
WritesTo(root_id, id) ==
    {j \in 1..Len(log) : log[j].ok /\ log[j].root_id = root_id /\ log[j].id = id}

\* C29: fetchMessage(root, t) yields the root, turn, role and content of the
\* latest append that returned t for that root, so it round-trips with the
\* append just made, and yields None when no append to (root, t) was made.
C29_AppendFetchRoundTrip ==
    fetched.kind = "row" =>
        LET W == WritesTo(fetched.root_id, fetched.id) IN
        /\ W = {} => fetched.rows = <<>>
        /\ W # {} =>
              fetched.rows = <<Row(fetched.root_id, fetched.id,
                                   log[SetMax(W)].role, log[SetMax(W)].content)>>

\* the row of an append that allocated turn 1 on root 1 has been read back,
\* and so has the absence of a row
C29_Witness ==
    /\ fetched.kind = "row"
    /\ fetched.root_id = 1 /\ fetched.id = 1
    /\ fetched.rows # <<>>
    /\ \E j \in WritesTo(1, 1) : log[j].auto
    /\ WritesTo(0, 1) = {}

\* the append call that has just returned or raised
Last(l) == l[Len(l)]

\* C35: one append after the other, with turns omitted or explicit, gaps
\* included: an append without a turn returns, keeps every row there was,
\* and adds one row to its root, at a turn greater than every turn the root
\* held.
C35_AutoAppendAddsOneRow ==
    [][(Len(log') = Len(log) + 1 /\ Last(log').auto) =>
          LET e == Last(log') IN
          /\ e.ok
          /\ \A i \in 1..Len(db) : \E j \in 1..Len(db') : db'[j] = db[i]
          /\ Len(db') = Len(db) + 1
          /\ Cardinality(RowsOf(db', e.root_id)) =
                Cardinality(RowsOf(db, e.root_id)) + 1
          /\ \A i \in RowsOf(db, e.root_id) : db[i].id < e.id
          /\ RowsAt(db', e.root_id, e.id) # {}]_vars

\* an append without a turn was made to a root that holds turn 1 and not
\* turn 0
C35_Witness ==
    /\ log # <<>>
    /\ Last(log).auto /\ Last(log).ok /\ Last(log).id = 2
    /\ RowsAt(db, Last(log).root_id, 0) = {}
    /\ RowsAt(db, Last(log).root_id, 1) # {}

SameKey(row, e) == row.root_id = e.root_id /\ row.id = e.id

\* C39: an append that returns turn t for root r leaves every row of another
\* root, and every row of r at another turn, as it was, and adds no row
\* elsewhere; a fetch of a thread or of a row leaves the table as it was.
C39_AppendIsLocal ==
    [][/\ (Len(log') = Len(log) + 1 /\ Last(log').ok) =>
            LET e == Last(log') IN
            /\ \A i \in 1..Len(db) :
                  ~SameKey(db[i], e) => \E j \in 1..Len(db') : db'[j] = db[i]
            /\ \A j \in 1..Len(db') :
                  ~SameKey(db'[j], e) => \E i \in 1..Len(db) : db[i] = db'[j]
       /\ (fetched'.done /\ fetched' # fetched) => db' = db]_vars

\* a row was overwritten while the table held another row, and then fetched
C39_Witness ==
    /\ log # <<>> /\ Last(log).ok
    /\ Cardinality(WritesTo(Last(log).root_id, Last(log).id)) >= 2
    /\ Len(db) >= 2
    /\ fetched.kind = "row" /\ fetched.rows # <<>>

(***************************************************************************)
(* Claims about the send hook, checked under SpecHook.                     *)
(***************************************************************************)
\* C12: a hook call with silent = true leaves every row of every root as it
\* was and returns the message it was given, for every shape of message,
\* one with neither content nor tool calls included.
C12_SilentHookDoesNothing ==
    [][hook'.silent =>
          /\ db' = db
          /\ hook'.raised = "none"
          /\ hook'.returns = hook'.message]_vars

\* a silent call with a message that has neither content nor tool calls has
\* returned it, on a store that holds rows
C12_Witness ==
    /\ hook.n > 0 /\ hook.silent
    /\ hook.message = Dict(NoValue, NoValue)
    /\ hook.returns = hook.message
    /\ db # <<>>

\* a dict that has neither text nor tool calls
NoContentNoToolCalls(message) ==
    /\ message.shape = "dict"
    /\ message.content \in {NoValue, ""}
    /\ message.tool_calls = NoValue

SummaryOf(message) ==
    IF message.shape = "str" THEN message.content
    ELSE IF message.content \notin {NoValue, ""} THEN message.content
    ELSE "Calling tools..."

\* C27: the info row a hook call writes at (0, msg_idx + 1) holds at most
\* 100 characters, the first ones of the message's summary (all of it when
\* it is no longer than that); no info row of the top-level thread is longer.
C27_SnippetBounded ==
    /\ (hook.n > 0 /\ ~hook.silent /\ hook.raised = "none") =>
          /\ Cardinality(RowsAt(db, 0, hook.msg_idx + 1)) = 1
          /\ \A k \in RowsAt(db, 0, hook.msg_idx + 1) :
                LET summary == SummaryOf(hook.message)
                    n == IF Len(summary) < 100 THEN Len(summary) ELSE 100
                IN  /\ db[k].role = "info"
                    /\ Len(db[k].content) = n
                    /\ db[k].content = SubSeq(summary, 1, n)
    /\ \A k \in RowsOf(db, 0) : db[k].role = "info" => Len(db[k].content) <= 100

\* a message of 150 characters has left its first 100 as the info row
C27_Witness ==
    /\ hook.n > 0 /\ ~hook.silent /\ hook.raised = "none"
    /\ hook.message = Dict(Text150, NoValue)
    /\ \E k \in RowsAt(db, 0, hook.msg_idx + 1) : db[k].content = Text100

(***************************************************************************)
(* Claims about the consecutive-empty rule, checked under SpecEmpty.       *)
(***************************************************************************)
UserMessages(msgs) == {i \in 1..Len(msgs) : msgs[i].role = "user"}

\* the two most recent user messages exist and both have empty content
LastTwoUserEmpty(msgs) ==
    \E i, j \in UserMessages(msgs) :
        /\ i < j
        /\ \A k \in UserMessages(msgs) : k <= i \/ k = j
        /\ msgs[i].content = "" /\ msgs[j].content = ""

\* C7: with fewer than 2 user messages in the history the rule does not
\* terminate, even when every user message present is empty.
C7_FewerThanTwoContinues ==
    (reply.checked /\ Cardinality(UserMessages(messages)) < 2) => ~reply.final

\* C8: the rule terminates if and only if the two most recent user messages
\* both have empty content.
C8_TerminatesIffLastTwoEmpty ==
    reply.checked => (reply.final <=> LastTwoUserEmpty(messages))

(***************************************************************************)
(* Claims about the termination manager, checked under SpecTerm.           *)
(***************************************************************************)
\* a text that is not a JSON object with a boolean is_done and a string reason
Malformed(text) ==
    LET j == JsonLoads(text)
    IN  ~j.valid \/ j.type # "dict" \/ j.is_done.type # "bool" \/ j.reason.type # "str"

Judged == verdict.op = "check" /\ verdict.model_calls = 1

\* C5: for every malformed text the model client returns, check_termination
\* does not raise and returns NotTerminated.
C5_MalformedDegrades ==
    (Judged /\ verdict.response \in Texts /\ Malformed(verdict.response))
        => verdict.kind = "NotTerminated"

GateClosedAtCheck == verdict.op = "check" /\ engine.turns <= engine.min_turns

\* C6 as stated: while turnsTaken <= minTurns every check_termination returns
\* NotTerminated, MaxTurnsReached included.
C6_GateSuppressesEveryVerdict ==
    GateClosedAtCheck => verdict.kind = "NotTerminated"

\* C6 amended: while turnsTaken <= minTurns the judge is not consulted and
\* GoalReached is never returned; the result is NotTerminated unless maxTurns
\* is set and reached, which needs turnsTaken = minTurns = maxTurns and gives
\* Terminated(MaxTurnsReached).
C6_GateSuppressesJudge ==
    GateClosedAtCheck =>
        /\ verdict.model_calls = 0
        /\ \/ verdict.kind = "NotTerminated"
           \/ /\ verdict.kind = "Terminated"
              /\ verdict.reason = "MAX_TURNS_REACHED"
              /\ engine.max_turns = engine.turns
              /\ engine.min_turns = engine.turns

\* the gate, closed at turnsTaken = minTurns, has held back a model that
\* would have answered that the goal is reached
C6_Witness ==
    /\ GateClosedAtCheck
    /\ engine.turns = engine.min_turns
    /\ verdict.history_len > 0
    /\ verdict.response = "{is_done: true, reason: done}"
    /\ verdict.kind = "NotTerminated"

Checked == verdict.op = "check"

LimitReachedAtCheck ==
    Checked /\ engine.max_turns # None /\ engine.turns >= engine.max_turns

\* C14: with maxTurns = n set, every check_termination made while
\* turnsTaken >= n returns Terminated(MaxTurnsReached) without a call of the
\* model, whatever the chat history; with maxTurns unset no check returns
\* MaxTurnsReached.
C14_MaxTurnsReached ==
    /\ LimitReachedAtCheck =>
          /\ verdict.kind = "Terminated"
          /\ verdict.reason = "MAX_TURNS_REACHED"
          /\ verdict.model_calls = 0
    /\ (Checked /\ engine.max_turns = None) =>
          verdict.reason # "MAX_TURNS_REACHED"

\* the limit, reached exactly and with the gate open, has overridden a model
\* that would have asked for more turns
C14_Witness ==
    /\ LimitReachedAtCheck
    /\ engine.turns = engine.max_turns
    /\ engine.turns > engine.min_turns
    /\ verdict.history_len > 0
    /\ verdict.response = "{is_done: false, reason: more}"
    /\ verdict.reason = "MAX_TURNS_REACHED"

\* C15: when the judge is consulted and the model's text is a JSON object
\* with a boolean is_done and a string reason, the result is
\* Terminated(GoalReached, reason) for is_done true and NotTerminated(reason)
\* for is_done false, with the model's reason carried unchanged.
C15_WellFormedVerdict ==
    (Judged /\ verdict.response \in Texts /\ ~Malformed(verdict.response)) =>
        LET j == JsonLoads(verdict.response) IN
        /\ verdict.explanation = j.reason.v
        /\ j.is_done.v = "True" =>
              verdict.kind = "Terminated" /\ verdict.reason = "GOAL_REACHED"
        /\ j.is_done.v = "False" =>
              verdict.kind = "NotTerminated" /\ verdict.reason = "none"

\* the judge has answered that the goal is not reached, and why
C15_Witness ==
    /\ Judged
    /\ verdict.response = "{is_done: false, reason: more}"
    /\ verdict.kind = "NotTerminated"
    /\ verdict.explanation = "more"

\* C16: a check_termination call invokes the model client at most once, and
\* not at all when the max-turns rule reports Terminated or when the
\* minimum-turns gate is closed (turnsTaken <= minTurns).
C16_RulesShortCircuitJudge ==
    Checked =>
        /\ verdict.model_calls <= 1
        /\ LimitReachedAtCheck => verdict.model_calls = 0
        /\ verdict.reason = "MAX_TURNS_REACHED" => verdict.model_calls = 0
        /\ engine.turns <= engine.min_turns => verdict.model_calls = 0

\* the closed gate has kept the call away from a model client that would
\* have failed
C16_Witness ==
    /\ Checked
    /\ engine.turns <= engine.min_turns
    /\ ~LimitReachedAtCheck
    /\ verdict.history_len > 0
    /\ verdict.response = TransportFailure
    /\ verdict.kind = "NotTerminated"
    /\ verdict.model_calls = 0

\* the rules report NotTerminated and the gate is open
JudgeDue ==
    /\ Checked
    /\ ~(engine.max_turns # None /\ engine.turns >= engine.max_turns)
    /\ engine.turns > engine.min_turns

\* C17 as stated: whenever the rules report NotTerminated and the gate is
\* open, the model is consulted, for every chat history.
C17_JudgeConsultedOnEveryHistory == JudgeDue => verdict.model_calls = 1

\* C17 amended: whenever the rules report NotTerminated, the gate is open
\* (from turnsTaken = minTurns + 1 on) and the chat history is not empty, the
\* model is consulted once and its verdict is the result; on an empty
\* history the result is NotTerminated and the model is not consulted.
C17_JudgeConsultedOnNonEmptyHistory ==
    /\ (JudgeDue /\ verdict.history_len > 0) =>
          /\ verdict.model_calls = 1
          /\ verdict.response = "{is_done: true, reason: done}" =>
                /\ verdict.kind = "Terminated"
                /\ verdict.reason = "GOAL_REACHED"
                /\ verdict.explanation = "done"
          /\ verdict.response = "{is_done: false, reason: more}" =>
                /\ verdict.kind = "NotTerminated"
                /\ verdict.explanation = "more"
    /\ (JudgeDue /\ verdict.history_len = 0) =>
          verdict.model_calls = 0 /\ verdict.kind = "NotTerminated"

\* the judge has ended the conversation at the first turn the gate is open
C17_Witness ==
    /\ JudgeDue
    /\ engine.turns = engine.min_turns + 1
    /\ verdict.history_len > 0
    /\ verdict.model_calls = 1
    /\ verdict.kind = "Terminated"
    /\ verdict.reason = "GOAL_REACHED"

\* C18: construction raises, leaving no engine, exactly when minTurns < 1 or
\* maxTurns is set and maxTurns < minTurns; for every other pair, maxTurns =
\* minTurns and maxTurns unset included, it yields an engine with these
\* limits and no turn taken.
C18_ConstructionFails ==
    verdict.op = "init" =>
        LET goal == verdict.args[1]
            max_turns == verdict.args[2]
            min_turns == verdict.args[3]
            bad == min_turns < 1 \/ (max_turns # None /\ max_turns < min_turns)
        IN  /\ bad => (~engine.built /\ verdict.kind = "raised")
            /\ ~bad => /\ engine.built
                       /\ verdict.kind # "raised"
                       /\ engine.goal = goal
                       /\ engine.max_turns = max_turns
                       /\ engine.min_turns = min_turns
                       /\ engine.turns = 0

\* minTurns = 2 with maxTurns = 1 has been refused
C18_Witness ==
    /\ verdict.op = "init"
    /\ verdict.args[2] = 1 /\ verdict.args[3] = 2
    /\ ~engine.built
    /\ verdict.explanation = "ValueError"

\* C19: every reset leaves turnsTaken = 0 and leaves minTurns, maxTurns and
\* the goal as they were, and a reset of the state it leaves changes nothing.
C19_ResetRestores ==
    [][verdict'.op = "reset" =>
          /\ engine'.built
          /\ engine'.turns = 0
          /\ engine'.min_turns = engine.min_turns
          /\ engine'.max_turns = engine.max_turns
          /\ engine'.goal = engine.goal
          /\ reset(engine') = engine']_vars

\* an engine with a turn limit and turns taken has been reset
C19_Witness ==
    /\ verdict.op = "reset"
    /\ verdict.turns_before >= 2
    /\ engine.turns = 0
    /\ engine.max_turns # None

\* C20: record_turn_taken adds exactly 1 to turnsTaken and changes nothing
\* else; check_termination changes no field of the engine, whatever it
\* returns and when it raises.
C20_OnlyRecordCounts ==
    [][/\ verdict'.op = "record" =>
             engine' = [engine EXCEPT !.turns = engine.turns + 1]
       /\ verdict'.op = "check" => engine' = engine]_vars

\* a turn has been recorded on an engine that had taken turns before
C20_Witness ==
    /\ verdict.op = "record"
    /\ verdict.turns_before >= 1
    /\ engine.turns = verdict.turns_before + 1

\* C30: when the model's response is a tool invocation instead of text,
\* check_termination raises; it returns neither Terminated nor NotTerminated.
C30_ToolCallRaises ==
    (Judged /\ verdict.response = ToolCall) =>
        /\ verdict.kind = "raised"
        /\ verdict.kind \notin {"Terminated", "NotTerminated"}

\* the judge was consulted and answered with a tool invocation
C30_Witness ==
    /\ Judged
    /\ verdict.response = ToolCall
    /\ verdict.history_len > 0
    /\ verdict.explanation = "AssertionError"

\* the check went past the three rules and called the model
ModelCalled ==
    /\ verdict.op = "check"
    /\ ~(engine.max_turns # None /\ engine.turns >= engine.max_turns)
    /\ engine.turns > engine.min_turns
    /\ verdict.history_len > 0

\* C31: a model call that fails in transport makes check_termination raise,
\* it returns neither Terminated nor NotTerminated; a response whose text
\* does not parse makes it return NotTerminated("Failed to parse response").
C31_TransportFailureSurfaces ==
    /\ (ModelCalled /\ verdict.response = TransportFailure) =>
          /\ verdict.kind = "raised"
          /\ verdict.explanation = "ModelClientError"
    /\ (ModelCalled /\ verdict.response = "not json") =>
          /\ verdict.kind = "NotTerminated"
          /\ verdict.explanation = "Failed to parse response"

\* the model call of a check failed in transport
C31_Witness ==
    /\ ModelCalled
    /\ verdict.response = TransportFailure
    /\ verdict.model_calls = 1
    /\ verdict.kind = "raised"

\* the turn limit is set and reached
Latched == engine.max_turns # None /\ engine.turns >= engine.max_turns

IsMaxTurns(v) ==
    v.op = "check" /\ v.kind = "Terminated" /\ v.reason = "MAX_TURNS_REACHED"

\* C37: a check returns Terminated(MaxTurnsReached) only with the limit
\* reached; with the limit reached every operation other than reset leaves it
\* reached, and every check returns Terminated(MaxTurnsReached), whatever
\* the history and the model's answer.
C37_MaxTurnsStable ==
    /\ [](IsMaxTurns(verdict) => Latched)
    /\ [][(Latched /\ verdict'.op # "reset") =>
             /\ Latched'
             /\ verdict'.op = "check" => IsMaxTurns(verdict')]_vars

\* a check returned MaxTurnsReached again after more turns were recorded
\* beyond the limit, with a model that would have said the goal is reached
C37_Witness ==
    /\ IsMaxTurns(verdict)
    /\ engine.max_turns >= 1
    /\ verdict.turns_before > engine.max_turns
    /\ verdict.history_len > 0
    /\ verdict.response = "{is_done: true, reason: done}"

(***************************************************************************)
(* Claims about handle_input and the generation task, checked under Spec.  *)
(***************************************************************************)
Active(i) == task[i].pc \notin {"idle", "done", "failed"}

\* C4: no two generation tasks that run at the same time are bound to the
\* same root, that is, to the same request turn msg_idx.
C4_OneTaskPerRoot ==
    \A i, j \in Requests :
        (i # j /\ Active(i) /\ Active(j)) => task[i].msg_idx # task[j].msg_idx

\* two generation tasks run at the same time
C4_Witness == \E i, j \in Requests : i # j /\ Active(i) /\ Active(j)

\* what a sent message is recorded as: its text, or its tool calls
\* serialized when it has tool calls and no text
Persisted(message) ==
    IF message.shape = "str" THEN message.content
    ELSE IF message.content \notin {NoValue, ""} THEN message.content
    ELSE JsonDumps(message.tool_calls)

InHook(i) == task[i].pc \in {"snippet_select", "snippet_write"}

\* C11: each message sent in the exchange of a task adds one row to the
\* task's conversation thread, with the sender as role and the message text,
\* or its serialized tool calls, as content; the thread holds one row per
\* message sent, none twice and none missing.
C11_OneRowPerSentMessage ==
    [][\A i \in Requests :
          /\ task'[i].msg_idx # None =>
                Cardinality(RowsOf(db', task'[i].msg_idx + 1))
                    = task'[i].sent + (IF InHook(i)' THEN 1 ELSE 0)
          /\ (task[i].pc = "conversation_write" /\ task'[i].pc = "snippet_select") =>
                Scan(db', task[i].msg_idx + 1)
                    = Append(Scan(db, task[i].msg_idx + 1),
                             Row(task[i].msg_idx + 1, task[i].sent,
                                 task[i].who, Persisted(task[i].message)))]_vars

\* a conversation thread holds the assistant's tool call and the user's reply
C11_Witness ==
    \E i \in Requests :
        /\ task[i].msg_idx # None
        /\ \E k, l \in RowsOf(db, task[i].msg_idx + 1) :
              /\ db[k].id = 0 /\ db[k].role = "assistant"
              /\ db[k].content = "[{call_1}]"
              /\ db[l].id = 1 /\ db[l].role = "user"

\* C21: a generation task is never started for a root (request turn) that
\* has an active task: such a start is rejected and starts no second task.
C21_SecondStartRejected ==
    [][\A i \in Requests :
          (task[i].pc = "idle" /\ task'[i].pc # "idle") =>
              ~\E j \in Requests :
                    j # i /\ Active(j) /\ task[j].msg_idx = task'[i].msg_idx]_vars

Ended_(i) == task[i].pc \in {"done", "failed"}

C24_NothingPersistedAfterTerminated ==
    \A i \in Requests :
        (task[i].pc \in {"conversation_write", "snippet_select", "snippet_write"}
         /\ task[i].who = "assistant")
            => ~terminate_on_consecutive_empty(task[i].view).final

\* C25: the seeding step leaves every row of the store as it was, and puts
\* every row of the top-level thread, of which the task's request is a turn,
\* into the view, in order.
C25_SeedingLeavesStore ==
    [][\A i \in Requests :
          (task[i].pc = "fetch" /\ task'[i].pc = "send") =>
              /\ db' = db
              /\ Len(task'[i].view) = Cardinality(RowsOf(db, 0))
              /\ \A k \in 1..Len(task'[i].view) :
                    /\ task'[i].view[k].content = Scan(db, 0)[k].content
                    /\ task'[i].view[k].role = "user"
                          <=> Scan(db, 0)[k].role = "user"]_vars

\* a task has been seeded with the rows of two requests and has not sent yet
C25_Witness ==
    \E i \in Requests :
        /\ task[i].pc = "send" /\ task[i].sent = 0
        /\ Len(task[i].view) >= 4
        /\ Len(task[i].view) = Cardinality(RowsOf(db, 0))

\* C32: handle_input has finished whenever its generation task is running or
\* has ended: it finishes in the step that starts the task, with the request
\* row and the placeholder row persisted, and no step of the task changes
\* anything of the handler.
C32_HandlerDoesNotWait ==
    /\ [](\A i \in Requests :
            task[i].pc # "idle" =>
                /\ h[i].pc = "returned"
                /\ RowsAt(db, 0, h[i].id) # {}
                /\ RowsAt(db, 0, h[i].id + 1) # {})
    /\ [][\A i \in Requests :
             /\ (h[i].pc = "start" /\ h'[i].pc # "start") =>
                    /\ h'[i].pc = "returned"
                    /\ task[i].pc = "idle" /\ task'[i].pc = "fetch"
                    /\ db' = db
             /\ (task[i].pc # "idle" /\ task'[i] # task[i]) => h' = h]_vars

\* a handler has finished while its task is in the middle of the exchange
C32_Witness ==
    \E i \in Requests :
        /\ h[i].pc = "returned"
        /\ task[i].pc = "snippet_select" /\ task[i].sent >= 1

\* the user row of request i holds what the request submitted
UserRowKept(i) ==
    /\ RowsAt(db, 0, h[i].id) # {}
    /\ \A k \in RowsAt(db, 0, h[i].id) :
          db[k].role = "user" /\ db[k].content = h[i].user_input

\* C33: the requests whose user row was written own disjoint pairs of
\* top-level turns (t, t + 1), and the user row of each stays as it was
\* written, however the handlers interleave.
C33_DisjointTurnPairs ==
    /\ \A i, j \in Requests :
          (i # j /\ h[i].id # None /\ h[j].id # None) =>
              {h[i].id, h[i].id + 1} \cap {h[j].id, h[j].id + 1} = {}
    /\ \A i \in Requests : h[i].id # None => UserRowKept(i)

\* the row that shows the response to request i
ResponseRows(d, i) == RowsAt(d, 0, h[i].id + 1)

\* C34: from the write of the placeholder on, the row at (0, t + 1) is there,
\* with role info, assistant or error; the write of the response is the
\* last step of the task and leaves role assistant there, and a task that
\* has completed has role assistant there.
C34_ResponseRowLifecycle ==
    /\ [](\A i \in Requests :
            (h[i].pc = "start" \/ task[i].pc # "idle") =>
                /\ Cardinality(ResponseRows(db, i)) = 1
                /\ \A k \in ResponseRows(db, i) :
                      /\ db[k].role \in {"info", "assistant", "error"}
                      /\ task[i].pc = "done" => db[k].role = "assistant")
    /\ [][\A i \in Requests :
             (task[i].pc = "response_write" /\ task'[i].pc # "response_write") =>
                 /\ task'[i].pc \in {"done", "failed"}
                 /\ task'[i].pc = "done" =>
                       \A k \in ResponseRows(db', i) :
                           /\ db'[k].role = "assistant"
                           /\ db'[k].content = task[i].response]_vars

\* a task has completed after its hook replaced the placeholder by snippets
C34_Witness ==
    \E i \in Requests :
        /\ task[i].pc = "done" /\ task[i].sent >= 2
        /\ \E k \in ResponseRows(db, i) : db[k].role = "assistant"

\* the requests submitted so far
Submitted == {i \in Requests : h[i].pc # "new"}

\* C36: with requests handled one after another, request i (from 1) has its
\* user row at turn 2(i - 1) and its response row at turn 2i - 1, the
\* top-level thread holds the turns 0..2n-1 after n requests, a fetch of the
\* thread gives the row of turn k at position k, the task reads its own
\* request at chat_history[msg_idx], and no step of a task changes the
\* top-level thread but for the row at msg_idx + 1.
C36_SequentialLayout ==
    /\ [](\A i \in Requests :
            /\ h[i].id # None =>
                  /\ h[i].id = 2 * (i - 1)
                  /\ \A k \in RowsAt(db, 0, h[i].id) :
                        db[k].role = "user" /\ db[k].content = h[i].user_input
            /\ task[i].pc # "idle" =>
                  /\ task[i].msg_idx = 2 * (i - 1)
                  /\ RowsAt(db, 0, 2 * i - 1) # {}
            /\ (task[i].pc = "send" /\ task[i].sent = 0) =>
                  task[i].task = h[i].user_input)
    /\ [](\A plan \in QueryPlans :
            LET thread == fetch_chat_history(db, 0, plan) IN
            /\ \A k \in 1..Len(thread) : thread[k].id = k - 1
            /\ (\A i \in Submitted : Settled(i)) =>
                  Len(thread) = 2 * Cardinality(Submitted))
    /\ [][\A i \in Requests :
             (task[i].pc # "idle" /\ task'[i] # task[i]) =>
                 /\ Cardinality(RowsOf(db', 0)) = Cardinality(RowsOf(db, 0))
                 /\ \A k \in RowsOf(db, 0) :
                       db[k].id # task[i].msg_idx + 1 =>
                           \E m \in RowsOf(db', 0) : db'[m] = db[k]]_vars

\* two requests were handled one after the other and both tasks ended, the
\* second after an exchange
C36_Witness ==
    /\ Submitted = Requests
    /\ \A i \in Requests : h[i].pc = "returned" /\ task[i].pc \in {"done", "failed"}
    /\ \E i \in Requests : i > 1 /\ task[i].pc = "done" /\ task[i].sent >= 1
    /\ Cardinality(RowsOf(db, 0)) = 2 * MaxRequests

\* C9: a generation task that ended with an exception has left exactly one
\* row of role error in the top-level thread at its linking turn.
C9_ErrorRowOnFailure ==
    \A i \in Requests :
        task[i].pc = "failed" =>
            /\ Cardinality(RowsAt(db, 0, task[i].msg_idx + 1)) = 1
            /\ \A k \in RowsAt(db, 0, task[i].msg_idx + 1) : db[k].role = "error"

\* C10: a generation task whose exchange has concluded has persisted its
\* response as the one row at (0, msg_idx + 1), with role assistant, and the
\* top-level thread holds one assistant row per concluded task.
C10_FinalSummaryRow ==
    /\ \A i \in Requests :
          task[i].pc = "done" =>
              /\ Cardinality(RowsAt(db, 0, task[i].msg_idx + 1)) = 1
              /\ \A k \in RowsAt(db, 0, task[i].msg_idx + 1) :
                    db[k].role = "assistant" /\ db[k].content = task[i].response
    /\ Cardinality({k \in RowsOf(db, 0) : db[k].role = "assistant"})
          = Cardinality({i \in Requests : task[i].pc = "done"})

\* a task has driven an exchange to its end and written the response
C10_Witness ==
    \E i \in Requests :
        /\ task[i].pc = "done" /\ task[i].sent >= 1
        /\ \E k \in RowsAt(db, 0, task[i].msg_idx + 1) : db[k].role = "assistant"

====
